---- MODULE Spec2Model ----
(***************************************************************************)
(* The SEV-SNP guest launch API: the type-state Launcher                   *)
(* (src/launch/launcher.rs), the policy and page-type codecs               *)
(* (src/launch/mod.rs), the sub-command encoders (src/kvm/types.rs) and    *)
(* the KVM_MEMORY_ENCRYPT_OP command envelope (src/launch/linux/ioctl.rs). *)
(***************************************************************************)
EXTENDS Integers, Sequences, FiniteSets, TLC

VARIABLES
    launchers,   \* the Launcher values the caller has obtained, by session number
    ioctls,      \* every ioctl issued so far, in order, with its outcome
    nextId,      \* number the next call of Launcher::new gets
    ret,         \* what the last call returned to the caller
    calls,       \* every call of new, start, update_data and finish so far, in order
    policyIn,    \* codec: the Policy last handed to Policy::to_u64
    policyOut,   \* codec: what Policy::to_u64 returned for it
    pageIn,      \* codec: the PageType last handed to PageType::value
    pageOut,     \* codec: what PageType::value returned for it
    pageCodes,   \* codec: every code PageType::value returned, by page type (0: not asked)
    updateIn,    \* encoder: the slice and the Update last handed to LaunchUpdate::new
    updateOut    \* encoder: the LaunchUpdate it built

vars ==
    <<launchers, ioctls, nextId, ret, calls, policyIn, policyOut, pageIn, pageOut,
      pageCodes, updateIn, updateOut>>

launcherVars == <<launchers, ioctls, nextId, ret, calls>>
codecVars == <<policyIn, policyOut, pageIn, pageOut, pageCodes, updateIn, updateOut>>

(***************************************************************************)
(* Bounds of the model.                                                    *)
(***************************************************************************)
\* Longest sequence of ioctls one behaviour issues.
MaxIoctls == 4
\* Number of calls of Launcher::new one behaviour makes.
MaxSessions == 2
\* Firmware version numbers 0..MaxVersion are tried, next to the u8 maximum.
MaxVersion == 2

(***************************************************************************)
(* Bit arithmetic on naturals (the operands of |, & and << in the source). *)
(***************************************************************************)
RECURSIVE BitAnd(_, _)
BitAnd(a, b) ==
    IF a = 0 \/ b = 0 THEN 0
    ELSE (a % 2) * (b % 2) + 2 * BitAnd(a \div 2, b \div 2)

RECURSIVE BitOr(_, _)
BitOr(a, b) ==
    IF a = 0 THEN b
    ELSE IF b = 0 THEN a
    ELSE (IF a % 2 = 1 \/ b % 2 = 1 THEN 1 ELSE 0) + 2 * BitOr(a \div 2, b \div 2)

\* a << n; every operand the model shifts stays far below the width of a u64.
Shl(a, n) == a * (2 ^ n)

\* Bit n of a.
Bit(a, n) == (a \div (2 ^ n)) % 2

(***************************************************************************)
(* src/launch/mod.rs: PolicyFlags, Policy, PageType.                       *)
(***************************************************************************)
SMT == 1
RESERVED == 2
MIGRATE_MA == 4
DEBUG == 8

\* Every value of the bitflags type PolicyFlags: the unions of its four flags.
PolicyFlags == 0 .. (SMT + RESERVED + MIGRATE_MA + DEBUG)

\* to_u16 without its last statement, `val |= 0b10`.
to_u16_without_reserved(self) ==
    LET val0 == 0
        val1 == IF BitAnd(self, SMT) = SMT THEN BitOr(val0, 1) ELSE val0
        val2 == IF BitAnd(self, MIGRATE_MA) = MIGRATE_MA THEN BitOr(val1, 4) ELSE val1
    IN  IF BitAnd(self, DEBUG) = DEBUG THEN BitOr(val2, 8) ELSE val2

\* PolicyFlags::to_u16
to_u16(self) ==
    LET val0 == 0
        val1 == IF BitAnd(self, SMT) = SMT THEN BitOr(val0, 1) ELSE val0
        val2 == IF BitAnd(self, MIGRATE_MA) = MIGRATE_MA THEN BitOr(val1, 4) ELSE val1
        val3 == IF BitAnd(self, DEBUG) = DEBUG THEN BitOr(val2, 8) ELSE val2
    IN  BitOr(val3, 2)

\* The mask Policy::to_u64 applies last: 0x00FFFFFF.
PolicyMask == 16777215

\* to_u64 shifting the minor version where the major version belongs.
to_u64_versions_swapped(self) ==
    LET minor_version == Shl(self.minfw.minor, 8)
        major_version == self.minfw.major
        flags_64 == Shl(to_u16(self.flags), 16)
        val == BitOr(BitOr(BitOr(0, minor_version), major_version), flags_64)
    IN  BitAnd(val, PolicyMask)

\* Policy::to_u64
to_u64(self) ==
    LET minor_version == self.minfw.minor
        major_version == Shl(self.minfw.major, 8)
        flags_64 == Shl(to_u16(self.flags), 16)
        val == BitOr(BitOr(BitOr(0, minor_version), major_version), flags_64)
    IN  BitAnd(val, PolicyMask)

\* enum PageType
PageType == {"Normal", "Vmsa", "Zero", "Unmeasured", "Secrets", "Cpuid"}

\* value with the arm of Cpuid repeating the code of Secrets.
value_cpuid_as_secrets(self) ==
    CASE self = "Normal" -> 1
      [] self = "Vmsa" -> 2
      [] self = "Zero" -> 3
      [] self = "Unmeasured" -> 4
      [] self = "Secrets" -> 5
      [] self = "Cpuid" -> 5

\* PageType::value
value(self) ==
    CASE self = "Normal" -> 1
      [] self = "Vmsa" -> 2
      [] self = "Zero" -> 3
      [] self = "Unmeasured" -> 4
      [] self = "Secrets" -> 5
      [] self = "Cpuid" -> 6

\* The u8 maximum; minfw.major, minfw.minor and the permission masks are u8.
U8Max == 255

\* Firmware version numbers the model tries.
Versions == (0 .. MaxVersion) \cup {U8Max}

\* struct Policy, over the versions tried.
Policies == [flags : PolicyFlags, minfw : [major : Versions, minor : Versions]]

\* struct Start, over the requests the launcher is driven with.
Starts ==
    [policy : [flags : {0, SMT, RESERVED + DEBUG}, minfw : [major : {1}, minor : {2}]],
     ma_uaddr : {0}, ma_en : {0}, imi_en : {0}, gosvw : {0}]

\* struct Update, over every page type and a few masks.
Updates ==
    [imi_page : {0, 1}, page_type : PageType,
     vmpl3_perms : {0, 3}, vmpl2_perms : {0, 5}, vmpl1_perms : {0, U8Max}]

\* struct Finish, over the requests the launcher is driven with.
Finishes ==
    [id_block_uaddr : {0}, id_auth_uaddr : {0}, id_block_en : {0}, auth_key_en : {0},
     host_data : {0}]

(***************************************************************************)
(* src/kvm/types.rs: the sub-command encoders.  A usize or u64 length is   *)
(* kept as its four 16-bit limbs, least significant first, so that the     *)
(* cast to u32 is the truncation the source performs.                      *)
(***************************************************************************)
\* A saturating conversion in place of the cast.
as_u32_saturating(n) ==
    IF n[3] # 0 \/ n[4] # 0 THEN <<65535, 65535>> ELSE <<n[1], n[2]>>

\* `as u32` of a usize: the low 32 bits.
as_u32(n) == <<n[1], n[2]>>

\* A byte slice &[u8]: where it starts and how long it is.
\* The longest has 2^32 + 4096 bytes.
Slices ==
    [ptr : {8192, 12288, 16384},
     len : {<<0, 0, 0, 0>>, <<4096, 0, 0, 0>>, <<4096, 0, 1, 0>>}]

\* LaunchStart::new
LaunchStart_new(start) ==
    [policy |-> to_u64(start.policy),
     ma_uaddr |-> start.ma_uaddr,
     ma_en |-> start.ma_en,
     imi_en |-> start.imi_en,
     gosvw |-> start.gosvw]

\* LaunchUpdate::new with the masks of VMPL3 and VMPL1 exchanged.
LaunchUpdate_new_perms_swapped(data, update) ==
    [uaddr |-> data.ptr,
     len |-> as_u32(data.len),
     imi_page |-> update.imi_page,
     page_type |-> value(update.page_type),
     vmpl3_perms |-> update.vmpl1_perms,
     vmpl2_perms |-> update.vmpl2_perms,
     vmpl1_perms |-> update.vmpl3_perms]

\* LaunchUpdate::new passing a null address for an empty slice.
LaunchUpdate_new_null_when_empty(data, update) ==
    [uaddr |-> IF data.len = <<0, 0, 0, 0>> THEN 0 ELSE data.ptr,
     len |-> as_u32(data.len),
     imi_page |-> update.imi_page,
     page_type |-> value(update.page_type),
     vmpl3_perms |-> update.vmpl3_perms,
     vmpl2_perms |-> update.vmpl2_perms,
     vmpl1_perms |-> update.vmpl1_perms]

\* LaunchUpdate::new
LaunchUpdate_new(data, update) ==
    [uaddr |-> data.ptr,
     len |-> as_u32(data.len),
     imi_page |-> update.imi_page,
     page_type |-> value(update.page_type),
     vmpl3_perms |-> update.vmpl3_perms,
     vmpl2_perms |-> update.vmpl2_perms,
     vmpl1_perms |-> update.vmpl1_perms]

\* #[repr(C)] struct LaunchUpdate: the five one-byte fields that follow uaddr
\* (offset 0) and len (offset 8), in declaration order, at offsets 12 to 16.
LaunchUpdate_bytes(lu) ==
    <<lu.imi_page, lu.page_type, lu.vmpl3_perms, lu.vmpl2_perms, lu.vmpl1_perms>>

\* LaunchFinish::new
LaunchFinish_new(finish) ==
    [id_block_uaddr |-> finish.id_block_uaddr,
     id_auth_uaddr |-> finish.id_auth_uaddr,
     id_block_en |-> finish.id_block_en,
     auth_key_en |-> finish.auth_key_en,
     host_data |-> finish.host_data]

(***************************************************************************)
(* src/launch/linux/ioctl.rs: command ids and the command envelope.        *)
(***************************************************************************)
\* The ids with LaunchUpdate given the number of LaunchStart.
Id_update_renumbered(T) ==
    CASE T = "Init" -> 256
      [] T = "LaunchStart" -> 257
      [] T = "LaunchUpdate" -> 257
      [] T = "LaunchFinish" -> 259

\* impl_const_id!: the id of each sub-command type.
Id(T) ==
    CASE T = "Init" -> 256
      [] T = "LaunchStart" -> 257
      [] T = "LaunchUpdate" -> 258
      [] T = "LaunchFinish" -> 259

\* AsRawFd::as_raw_fd of a handle; a handle object is named by its descriptor.
as_raw_fd(h) == h

\* Command::from leaving the payload address null.
Command_from_null_payload(sev, T, subcmd) ==
    [code |-> Id(T), data |-> 0, error |-> 0, sev_fd |-> as_raw_fd(sev)]

\* Command::from and Command::from_mut: T is the sub-command's type and
\* subcmd the address it lives at.
Command_from(sev, T, subcmd) ==
    [code |-> Id(T), data |-> subcmd, error |-> 0, sev_fd |-> as_raw_fd(sev)]

\* The virtualization handles and the co-processor handles of the caller.
KvmHandles == {3, 5}
SevHandles == {4, 6}

\* Outcomes of the submission primitive: 0 is success, otherwise the errno
\* of the io::Error (EPERM, EINVAL).
Outcomes == {0, 1, 22}

\* SNP_INIT, SNP_LAUNCH_START, SNP_LAUNCH_UPDATE, SNP_LAUNCH_FINISH .ioctl(fd, cmd):
\* the record of one KVM_MEMORY_ENCRYPT_OP submission on session sess through
\* the ioctl constant req, with the sub-command payload that lives at address
\* at while the ioctl runs, and the outcome res.
ioctl(sess, req, fd, cmd, at, payload, res) ==
    [sess |-> sess, req |-> req, fd |-> as_raw_fd(fd), cmd |-> cmd,
     at |-> at, payload |-> payload, res |-> res]

(***************************************************************************)
(* src/launch/launcher.rs: the type-state Launcher.                        *)
(***************************************************************************)
Sessions == 1 .. MaxSessions

\* No Launcher value: the slot of a session number not handed out yet.
NoLauncher == [_state |-> "None", kvm |-> 0, sev |-> 0, owned |-> FALSE]

\* struct Launcher { _state, kvm, sev }; owned says that the value exists,
\* that is, the caller holds it and it was neither moved into a call nor dropped.
Launcher(state, kvm, sev) == [_state |-> state, kvm |-> kvm, sev |-> sev, owned |-> TRUE]

\* Where a call's sub-command lives while the ioctl runs (a local of the call).
StackAddrs == {61440}

\* The calls update_data is driven with, as (frame, buffer, request): an
\* empty buffer, a page, and a buffer of 2^32 + 4096 bytes.
UpdateCalls ==
    {d \in [start_gfn : {0, 1, 2}, data : Slices, update : Updates] :
        \/ /\ d.start_gfn = 0
           /\ d.data = [ptr |-> 8192, len |-> <<0, 0, 0, 0>>]
           /\ d.update = [imi_page |-> 0, page_type |-> "Normal",
                          vmpl3_perms |-> 0, vmpl2_perms |-> 0, vmpl1_perms |-> 0]
        \/ /\ d.start_gfn = 1
           /\ d.data = [ptr |-> 12288, len |-> <<4096, 0, 0, 0>>]
           /\ d.update = [imi_page |-> 1, page_type |-> "Vmsa",
                          vmpl3_perms |-> 3, vmpl2_perms |-> 5, vmpl1_perms |-> U8Max]
        \/ /\ d.start_gfn = 2
           /\ d.data = [ptr |-> 16384, len |-> <<4096, 0, 1, 0>>]
           /\ d.update = [imi_page |-> 0, page_type |-> "Normal",
                          vmpl3_perms |-> 0, vmpl2_perms |-> 0, vmpl1_perms |-> 0]}

\* What the caller got back from the last call: the operation, the session,
\* the io::Result (0 for Ok, else the error) and the Start it passed by &mut.
NoStart == [policy |-> [flags |-> 0, minfw |-> [major |-> 0, minor |-> 0]],
            ma_uaddr |-> 0, ma_en |-> 0, imi_en |-> 0, gosvw |-> 0]
Ret(op, sess, err, start) == [op |-> op, sess |-> sess, err |-> err, start |-> start]

\* One call as the caller sees it: the operation, the session, the arguments
\* it passed and the io::Result it got back (0 for Ok, else the error).
Call(op, sess, args, err) == [op |-> op, sess |-> sess, args |-> args, err |-> err]

\* `?` replaced by a map_err that reports every failure as EPERM.
question_mark_as_eperm(res) == IF res # 0 THEN 1 ELSE 0

\* The `?` after each ioctl: the io::Error of the ioctl is the io::Error the
\* operation returns; success falls through to the Ok at the end.
question_mark(res) == res

\* start leaving the caller's Start as it was.
force_reserved_skipped(start) == start

\* `start.policy.flags |= PolicyFlags::RESERVED` on the caller's Start.
force_reserved(start) ==
    [start EXCEPT !.policy.flags = BitOr(start.policy.flags, RESERVED)]

\* Handles held as plain descriptors: nothing stops a second Launcher over them.
Unborrowed_always(h) == TRUE

\* &'a mut U, &'a mut V: a handle can be lent to Launcher::new only while no
\* Launcher value that borrows it exists.
Unborrowed(h) ==
    \A i \in Sessions : launchers[i].owned => launchers[i].kvm # h /\ launchers[i].sev # h

\* start callable on any Launcher the caller holds, whatever its state type.
start_self_any_state(l) == l.owned

\* The receiver of start: `self`, a Launcher<New> the caller holds.
start_self(l) == l.owned /\ l._state = "New"

\* update_data callable on any Launcher the caller holds, whatever its state type.
update_data_self_any_state(l) == l.owned

\* The receiver of update_data: `&mut self`, a Launcher<Started> the caller holds.
update_data_self(l) == l.owned /\ l._state = "Started"

\* The receiver of finish: `self`, a Launcher<Started> the caller holds.
finish_self(l) == l.owned /\ l._state = "Started"

\* new without the `?`: the launcher is returned whatever the ioctl said.
new_result_ignoring_error(launcher, res) == launcher

\* Launcher::new, after the ioctl: `?` drops the launcher with the error,
\* otherwise Ok(launcher).
new_result(launcher, res) ==
    IF res # 0 THEN [launcher EXCEPT !.owned = FALSE] ELSE launcher

\* start taking `&mut self`: a failed start leaves the caller its Launcher<New>.
start_result_borrowing(self, res) ==
    IF res # 0 THEN self
    ELSE Launcher("Started", self.kvm, self.sev)

\* Launcher::start, after the ioctl: self was moved in; `?` drops it with the
\* error, otherwise a Launcher<Started> over the same two handles is returned.
start_result(self, res) ==
    IF res # 0 THEN [self EXCEPT !.owned = FALSE]
    ELSE Launcher("Started", self.kvm, self.sev)

\* update_data taking `self`: the Launcher is gone after the call.
update_data_result_consuming(self, res) == [self EXCEPT !.owned = FALSE]

\* Launcher::update_data, after the ioctl: self was only borrowed.
update_data_result(self, res) == self

\* finish taking `&mut self`: the caller keeps its Launcher<Started>.
finish_result_borrowing(self, res) == self

\* finish handing the Launcher back when the ioctl failed.
finish_result_kept_on_error(self, res) ==
    IF res # 0 THEN self ELSE [self EXCEPT !.owned = FALSE]

\* Launcher::finish, after the ioctl: self was moved in and is gone either way.
finish_result(self, res) == [self EXCEPT !.owned = FALSE]

\* Launcher::new
new(kvm, sev, at, res) ==
    /\ nextId <= MaxSessions
    /\ Len(ioctls) < MaxIoctls
    /\ Unborrowed(kvm) /\ Unborrowed(sev)
    /\ LET launcher == Launcher("New", kvm, sev)
           init == [flags |-> 0]
           cmd == Command_from(launcher.sev, "Init", at)
           err == question_mark(res)
       IN  /\ ioctls' = Append(ioctls,
                  ioctl(nextId, "SNP_INIT", launcher.kvm, cmd, at, init, res))
           /\ launchers' = [launchers EXCEPT ![nextId] = new_result(launcher, res)]
           /\ ret' = Ret("new", nextId, err, NoStart)
           /\ calls' = Append(calls,
                  Call("new", nextId, [kvm |-> kvm, sev |-> sev], err))
    /\ nextId' = nextId + 1
    /\ UNCHANGED codecVars

\* Launcher::start
start(id, req, at, res) ==
    /\ Len(ioctls) < MaxIoctls
    /\ start_self(launchers[id])
    /\ LET self == launchers[id]
           start1 == force_reserved(req)
           launch_start == LaunchStart_new(start1)
           cmd == Command_from(self.sev, "LaunchStart", at)
           err == question_mark(res)
       IN  /\ ioctls' = Append(ioctls,
                  ioctl(id, "SNP_LAUNCH_START", self.kvm, cmd, at, launch_start, res))
           /\ launchers' = [launchers EXCEPT ![id] = start_result(self, res)]
           /\ ret' = Ret("start", id, err, start1)
           /\ calls' = Append(calls, Call("start", id, [start |-> req], err))
    /\ UNCHANGED <<nextId, codecVars>>

\* Launcher::update_data.  start_gfn is handed on to LaunchUpdate::new, whose
\* definition has no parameter and no field for it: no part of the
\* LaunchUpdate depends on it.
update_data(id, start_gfn, data, update, at, res) ==
    /\ Len(ioctls) < MaxIoctls
    /\ update_data_self(launchers[id])
    /\ LET self == launchers[id]
           launch_update_data == LaunchUpdate_new(data, update)
           cmd == Command_from(self.sev, "LaunchUpdate", at)
           err == question_mark(res)
       IN  /\ ioctls' = Append(ioctls,
                  ioctl(id, "SNP_LAUNCH_UPDATE", self.kvm, cmd, at, launch_update_data, res))
           /\ launchers' = [launchers EXCEPT ![id] = update_data_result(self, res)]
           /\ ret' = Ret("update_data", id, err, NoStart)
           /\ calls' = Append(calls,
                  Call("update_data", id,
                       [start_gfn |-> start_gfn, data |-> data, update |-> update], err))
    /\ UNCHANGED <<nextId, codecVars>>

\* Launcher::finish
finish(id, req, at, res) ==
    /\ Len(ioctls) < MaxIoctls
    /\ finish_self(launchers[id])
    /\ LET self == launchers[id]
           launch_finish == LaunchFinish_new(req)
           cmd == Command_from(self.sev, "LaunchFinish", at)
           err == question_mark(res)
       IN  /\ ioctls' = Append(ioctls,
                  ioctl(id, "SNP_LAUNCH_FINISH", self.kvm, cmd, at, launch_finish, res))
           /\ launchers' = [launchers EXCEPT ![id] = finish_result(self, res)]
           /\ ret' = Ret("finish", id, err, NoStart)
           /\ calls' = Append(calls, Call("finish", id, [finish |-> req], err))
    /\ UNCHANGED <<nextId, codecVars>>

\* The caller lets a Launcher it holds go out of scope; the struct has no
\* Drop implementation, so nothing is submitted and the handles stay open.
drop(id) ==
    /\ launchers[id].owned
    /\ launchers' = [launchers EXCEPT ![id].owned = FALSE]
    /\ ret' = Ret("drop", id, 0, NoStart)
    /\ UNCHANGED <<ioctls, nextId, calls, codecVars>>

\* The codec variables while the launcher runs.
NoPolicy == [flags |-> 0, minfw |-> [major |-> 0, minor |-> 0]]
NoUpdate ==
    [data |-> [ptr |-> 8192, len |-> <<0, 0, 0, 0>>],
     update |-> [imi_page |-> 0, page_type |-> "Normal",
                 vmpl3_perms |-> 0, vmpl2_perms |-> 0, vmpl1_perms |-> 0]]

Init ==
    /\ launchers = [i \in Sessions |-> NoLauncher]
    /\ ioctls = <<>>
    /\ nextId = 1
    /\ ret = Ret("none", 0, 0, NoStart)
    /\ calls = <<>>
    /\ policyIn = NoPolicy
    /\ policyOut = to_u64(NoPolicy)
    /\ pageIn = "Normal"
    /\ pageOut = value("Normal")
    /\ pageCodes = [k \in PageType |-> 0]
    /\ updateIn = NoUpdate
    /\ updateOut = LaunchUpdate_new(NoUpdate.data, NoUpdate.update)

Next ==
    \/ \E kvm \in KvmHandles, sev \in SevHandles, at \in StackAddrs, res \in Outcomes :
          new(kvm, sev, at, res)
    \/ \E id \in Sessions, req \in Starts, at \in StackAddrs, res \in Outcomes :
          start(id, req, at, res)
    \/ \E id \in Sessions, d \in UpdateCalls, at \in StackAddrs, res \in Outcomes :
          update_data(id, d.start_gfn, d.data, d.update, at, res)
    \/ \E id \in Sessions, req \in Finishes, at \in StackAddrs, res \in Outcomes :
          finish(id, req, at, res)
    \/ \E id \in Sessions : drop(id)

Spec == Init /\ [][Next]_vars

(***************************************************************************)
(* The codecs on their own: a caller applies Policy::to_u64 and            *)
(* PageType::value, both public, to any value of their argument types.     *)
(***************************************************************************)
\* A call of Policy::to_u64 on policy p.
Policy_to_u64(p) ==
    /\ policyIn' = p
    /\ policyOut' = to_u64(p)
    /\ UNCHANGED <<launcherVars, pageIn, pageOut, pageCodes, updateIn, updateOut>>

InitPolicy ==
    /\ launchers = [i \in Sessions |-> NoLauncher]
    /\ ioctls = <<>>
    /\ nextId = 1
    /\ ret = Ret("none", 0, 0, NoStart)
    /\ calls = <<>>
    /\ policyIn \in Policies
    /\ policyOut = to_u64(policyIn)
    /\ pageIn = "Normal"
    /\ pageOut = value("Normal")
    /\ pageCodes = [k \in PageType |-> 0]
    /\ updateIn = NoUpdate
    /\ updateOut = LaunchUpdate_new(NoUpdate.data, NoUpdate.update)

NextPolicy == \E p \in Policies : Policy_to_u64(p)

SpecPolicy == InitPolicy /\ [][NextPolicy]_vars

\* A call of PageType::value on page type k.
PageType_value(k) ==
    /\ pageIn' = k
    /\ pageOut' = value(k)
    /\ pageCodes' = [pageCodes EXCEPT ![k] = value(k)]
    /\ UNCHANGED <<launcherVars, policyIn, policyOut, updateIn, updateOut>>

InitPage ==
    /\ launchers = [i \in Sessions |-> NoLauncher]
    /\ ioctls = <<>>
    /\ nextId = 1
    /\ ret = Ret("none", 0, 0, NoStart)
    /\ calls = <<>>
    /\ policyIn = NoPolicy
    /\ policyOut = to_u64(NoPolicy)
    /\ pageIn \in PageType
    /\ pageOut = value(pageIn)
    /\ pageCodes = [k \in PageType |-> IF k = pageIn THEN pageOut ELSE 0]
    /\ updateIn = NoUpdate
    /\ updateOut = LaunchUpdate_new(NoUpdate.data, NoUpdate.update)

NextPage == \E k \in PageType : PageType_value(k)

SpecPage == InitPage /\ [][NextPage]_vars

\* A call of LaunchUpdate::new on slice data and request update.
LaunchUpdate_new_call(data, update) ==
    /\ updateIn' = [data |-> data, update |-> update]
    /\ updateOut' = LaunchUpdate_new(data, update)
    /\ UNCHANGED <<launcherVars, policyIn, policyOut, pageIn, pageOut, pageCodes>>

InitUpdate ==
    /\ launchers = [i \in Sessions |-> NoLauncher]
    /\ ioctls = <<>>
    /\ nextId = 1
    /\ ret = Ret("none", 0, 0, NoStart)
    /\ calls = <<>>
    /\ policyIn = NoPolicy
    /\ policyOut = to_u64(NoPolicy)
    /\ pageIn = "Normal"
    /\ pageOut = value("Normal")
    /\ pageCodes = [k \in PageType |-> 0]
    /\ updateIn \in [data : Slices, update : Updates]
    /\ updateOut = LaunchUpdate_new(updateIn.data, updateIn.update)

NextUpdate == \E data \in Slices, update \in Updates : LaunchUpdate_new_call(data, update)

SpecUpdate == InitUpdate /\ [][NextUpdate]_vars

(***************************************************************************)
(* Properties of the launch protocol, over the ioctls issued so far.       *)
(***************************************************************************)
Issued == 1 .. Len(ioctls)

\* The i-th ioctl carries the command of sub-command type T.
IsCmd(i, T) == ioctls[i].cmd.code = Id(T)

\* Some ioctl before the j-th, on the same session, carried T and succeeded.
SucceededBefore(j, T) ==
    \E i \in 1 .. (j - 1) :
        /\ ioctls[i].sess = ioctls[j].sess
        /\ IsCmd(i, T)
        /\ ioctls[i].res = 0

\* C1: no LaunchUpdate or LaunchFinish is issued on a session before a
\* LaunchStart on that session succeeded, no LaunchStart before the Init of
\* that session succeeded, and a Launcher is in state Started only after a
\* successful LaunchStart on its session.
C1_StartBeforeUpdateAndFinish ==
    /\ \A j \in Issued :
          /\ (IsCmd(j, "LaunchUpdate") \/ IsCmd(j, "LaunchFinish"))
                => SucceededBefore(j, "LaunchStart")
          /\ IsCmd(j, "LaunchStart") => SucceededBefore(j, "Init")
    /\ \A s \in Sessions :
          launchers[s]._state = "Started"
             => \E i \in Issued :
                   ioctls[i].sess = s /\ IsCmd(i, "LaunchStart") /\ ioctls[i].res = 0

\* C1 witness: a session on which a LaunchUpdate and a LaunchFinish were issued.
C1_Witness ==
    \E i, j \in Issued :
        /\ ioctls[i].sess = ioctls[j].sess
        /\ IsCmd(i, "LaunchUpdate")
        /\ IsCmd(j, "LaunchFinish")

\* Position of a command on the path new -> start -> update_data* -> finish.
Rank(code) ==
    CASE code = Id("Init") -> 0
      [] code = Id("LaunchStart") -> 1
      [] code = Id("LaunchUpdate") -> 2
      [] code = Id("LaunchFinish") -> 3

\* C2: on one session the ioctls follow new -> start -> update_data* -> finish:
\* of two ioctls on the same session the later one is further along the path,
\* unless both are LaunchUpdate; so Init, LaunchStart and LaunchFinish are each
\* issued at most once per session.
C2_LinearPath ==
    /\ \A i, j \in Issued :
          (i < j /\ ioctls[i].sess = ioctls[j].sess)
             => \/ Rank(ioctls[i].cmd.code) < Rank(ioctls[j].cmd.code)
                \/ IsCmd(i, "LaunchUpdate") /\ IsCmd(j, "LaunchUpdate")
    /\ \A s \in Sessions, T \in {"Init", "LaunchStart", "LaunchFinish"} :
          Cardinality({i \in Issued : ioctls[i].sess = s /\ IsCmd(i, T)}) <= 1

\* C2 witness: one session went the whole path, and its Launcher<Started>
\* existed in between.
C2_Witness ==
    \E a, b, c, d \in Issued :
        /\ a < b /\ b < c /\ c < d
        /\ ioctls[a].sess = ioctls[b].sess
        /\ ioctls[b].sess = ioctls[c].sess
        /\ ioctls[c].sess = ioctls[d].sess
        /\ IsCmd(a, "Init") /\ IsCmd(b, "LaunchStart")
        /\ IsCmd(c, "LaunchUpdate") /\ IsCmd(d, "LaunchFinish")

\* C3: once finish was called on a session, whatever its LaunchFinish
\* returned, no later ioctl is issued on that session and its Launcher is gone.
C3_FinishIsTerminal ==
    \A i \in Issued :
        IsCmd(i, "LaunchFinish")
           => /\ \A j \in Issued : j > i => ioctls[j].sess # ioctls[i].sess
              /\ ~launchers[ioctls[i].sess].owned

\* C3 witness: a LaunchFinish failed and the caller went on afterwards with a
\* successful new.
C3_Witness ==
    \E i, j \in Issued :
        /\ i < j
        /\ IsCmd(i, "LaunchFinish") /\ ioctls[i].res # 0
        /\ ret.op = "new" /\ ret.err = 0

\* C4: when the Init of a call of new fails, that call returns the error and
\* no Launcher: no other ioctl is ever issued for it and no Launcher of it,
\* New or Started, exists.
C4_FailedNewYieldsNothing ==
    \A i \in Issued :
        (IsCmd(i, "Init") /\ ioctls[i].res # 0)
           => /\ \A j \in Issued : j # i => ioctls[j].sess # ioctls[i].sess
              /\ ~launchers[ioctls[i].sess].owned
              /\ launchers[ioctls[i].sess]._state # "Started"
              /\ (ret.op = "new" /\ ret.sess = ioctls[i].sess) => ret.err = ioctls[i].res

\* C4 witness: an Init failed and the caller, trying again with a fresh new
\* over the same handles, got as far as Started.
C4_Witness ==
    \E i, j \in Issued :
        /\ i < j
        /\ IsCmd(i, "Init") /\ ioctls[i].res # 0
        /\ IsCmd(j, "Init") /\ ioctls[j].res = 0
        /\ ioctls[j].fd = ioctls[i].fd
        /\ launchers[ioctls[j].sess]._state = "Started"
        /\ launchers[ioctls[j].sess].owned

\* C5: when the LaunchStart of start fails, the Launcher<New> is gone and no
\* Launcher<Started> is made: no later ioctl is issued on that session.
C5_FailedStartConsumes ==
    \A i \in Issued :
        (IsCmd(i, "LaunchStart") /\ ioctls[i].res # 0)
           => /\ \A j \in Issued : j > i => ioctls[j].sess # ioctls[i].sess
              /\ ~launchers[ioctls[i].sess].owned
              /\ launchers[ioctls[i].sess]._state # "Started"

\* C5 witness: a LaunchStart failed and the caller began again from new.
C5_Witness ==
    \E i, j \in Issued :
        /\ i < j
        /\ IsCmd(i, "LaunchStart") /\ ioctls[i].res # 0
        /\ IsCmd(j, "Init")

\* C6 as stated: after an ioctl of any operation fails, no later ioctl is
\* issued on its session.
C6_AnyFailureKills ==
    \A i, j \in Issued :
        (i < j /\ ioctls[i].res # 0) => ioctls[j].sess # ioctls[i].sess

\* C6 as amended: after a failed Init, LaunchStart or LaunchFinish no later
\* ioctl is issued on its session and its Launcher is gone; a failed
\* update_data returns the error and leaves the caller its Launcher<Started>.
C6_FailureKillsExceptUpdate ==
    /\ \A i \in Issued :
          (ioctls[i].res # 0 /\ ~IsCmd(i, "LaunchUpdate"))
             => /\ \A j \in Issued : j > i => ioctls[j].sess # ioctls[i].sess
                /\ ~launchers[ioctls[i].sess].owned
    /\ (ret.op = "update_data" /\ ret.err # 0)
          => update_data_self(launchers[ret.sess]) /\ finish_self(launchers[ret.sess])

\* C6 witness: a LaunchUpdate failed and a later ioctl went out on the same
\* session; a LaunchFinish failed too.
C6_Witness ==
    \E i, j, k \in Issued :
        /\ i < j /\ j <= k
        /\ ioctls[i].sess = ioctls[j].sess
        /\ IsCmd(i, "LaunchUpdate") /\ ioctls[i].res # 0
        /\ IsCmd(k, "LaunchFinish") /\ ioctls[k].res # 0

\* The step issued a LaunchUpdate.
UpdateDataStep ==
    /\ Len(ioctls') = Len(ioctls) + 1
    /\ ioctls'[Len(ioctls')].cmd.code = Id("LaunchUpdate")

\* C7: a call of update_data, failed or not, leaves the Launcher as it was,
\* in state Started over the same two handles, with update_data and finish
\* still callable on it.
C7_UpdateKeepsPhase ==
    [][UpdateDataStep
          => LET id == ioctls'[Len(ioctls')].sess
             IN  /\ launchers'[id] = launchers[id]
                 /\ launchers'[id]._state = "Started"
                 /\ update_data_self(launchers'[id])
                 /\ finish_self(launchers'[id])]_vars

\* C7 witness: after two calls of update_data the Launcher<Started> is there.
C7_Witness ==
    \E i, j \in Issued :
        /\ i < j
        /\ ioctls[i].sess = ioctls[j].sess
        /\ IsCmd(i, "LaunchUpdate") /\ IsCmd(j, "LaunchUpdate")
        /\ ret.op = "update_data"
        /\ launchers[ioctls[j].sess].owned
        /\ launchers[ioctls[j].sess]._state = "Started"

(***************************************************************************)
(* Properties of the codecs.                                               *)
(***************************************************************************)
\* C8 as stated: the value Policy::to_u64 returns has bit 1 set.
C8_Bit1Set == Bit(policyOut, 1) = 1

\* C8 as amended: the value Policy::to_u64 returns has the Reserved flag set,
\* which is bit 1 of the flags field, bit 17 of the value, whatever the
\* flags of the policy.
C8_ReservedBitSet == Bit(policyOut, 17) = 1

\* C8 witness: a policy without the Reserved flag was encoded.
C8_Witness ==
    /\ Bit(policyIn.flags, 1) = 0
    /\ policyOut = to_u64(policyIn)
    /\ Bit(policyOut, 17) = 1

\* The flags field C9 expects for the flags f of a policy.
ExpectedFlags(f) == Bit(f, 0) + 2 + 4 * Bit(f, 2) + 8 * Bit(f, 3)

\* C9: the value Policy::to_u64 returns is minor + major * 2^8 + F * 2^16, F
\* being 1 for SMT, plus 2, plus 4 for MigrateMA, plus 8 for Debug; it is
\* below 2^24; flags SMT with version 1.2 encode to 0x030102.
C9_PolicyLayout ==
    /\ policyOut = policyIn.minfw.minor + policyIn.minfw.major * 256
                      + ExpectedFlags(policyIn.flags) * 65536
    /\ policyOut < 16777216
    /\ policyIn = [flags |-> SMT, minfw |-> [major |-> 1, minor |-> 2]]
          => policyOut = 196866

\* C9 witness: flags SMT with version 1.2 were encoded, to 0x030102.
C9_Witness ==
    /\ policyIn = [flags |-> SMT, minfw |-> [major |-> 1, minor |-> 2]]
    /\ policyOut = 196866

\* The page type codes C10 states.
ExpectedPageCode ==
    ("Normal" :> 1) @@ ("Vmsa" :> 2) @@ ("Zero" :> 3) @@ ("Unmeasured" :> 4)
       @@ ("Secrets" :> 5) @@ ("Cpuid" :> 6)

\* C10: PageType::value returns the stated code for every page type, no two
\* page types got the same code, and once every page type was asked the codes
\* returned are exactly 1..6.
C10_PageTypeBijection ==
    /\ pageOut = ExpectedPageCode[pageIn]
    /\ pageCodes[pageIn] = pageOut
    /\ \A k \in PageType : pageCodes[k] # 0 => pageCodes[k] = ExpectedPageCode[k]
    /\ \A k1, k2 \in PageType :
          (pageCodes[k1] # 0 /\ pageCodes[k1] = pageCodes[k2]) => k1 = k2
    /\ (\A k \in PageType : pageCodes[k] # 0)
          => {pageCodes[k] : k \in PageType} = 1 .. 6

\* C10 witness: PageType::value was asked for all six page types.
C10_Witness == \A k \in PageType : pageCodes[k] # 0

(***************************************************************************)
(* Properties of the submissions: what each call puts on the wire.         *)
(***************************************************************************)
\* The ioctl constant each operation submits through.
ReqOf(op) ==
    CASE op = "new" -> "SNP_INIT"
      [] op = "start" -> "SNP_LAUNCH_START"
      [] op = "update_data" -> "SNP_LAUNCH_UPDATE"
      [] op = "finish" -> "SNP_LAUNCH_FINISH"

\* The command id C11 states for each operation.
ExpectedCode ==
    ("new" :> 256) @@ ("start" :> 257) @@ ("update_data" :> 258) @@ ("finish" :> 259)

\* C11: the i-th call issued the i-th ioctl, whose envelope carries the id of
\* the calling operation: 256 for new, 257 for start, 258 for update_data,
\* 259 for finish; the code is one of the four and two ioctls of different
\* operations never carry the same code.
C11_CommandIds ==
    /\ Len(calls) = Len(ioctls)
    /\ \A i \in Issued :
          /\ ioctls[i].req = ReqOf(calls[i].op)
          /\ ioctls[i].cmd.code = ExpectedCode[calls[i].op]
          /\ ioctls[i].cmd.code \in {256, 257, 258, 259}
    /\ \A i, j \in Issued :
          calls[i].op # calls[j].op => ioctls[i].cmd.code # ioctls[j].cmd.code

\* C11 witness: all four operations have submitted.
C11_Witness ==
    \A op \in {"new", "start", "update_data", "finish"} :
        \E i \in Issued : calls[i].op = op

\* The i-th call is a call of update_data.
IsUpdateCall(i) == calls[i].op = "update_data"

\* C12 as stated: the i-th call of update_data issued the i-th ioctl, a
\* LaunchUpdate on its session carrying the address and the exact length of
\* that call's buffer; calls with different buffers give different addresses.
C12_OwnBufferExact ==
    /\ Len(calls) = Len(ioctls)
    /\ \A i \in Issued :
          IsUpdateCall(i)
             => /\ ioctls[i].req = "SNP_LAUNCH_UPDATE"
                /\ ioctls[i].sess = calls[i].sess
                /\ ioctls[i].payload.uaddr = calls[i].args.data.ptr
                /\ calls[i].args.data.len
                      = <<ioctls[i].payload.len[1], ioctls[i].payload.len[2], 0, 0>>
    /\ \A i, j \in Issued :
          (IsUpdateCall(i) /\ IsUpdateCall(j)
              /\ calls[i].args.data.ptr # calls[j].args.data.ptr)
             => ioctls[i].payload.uaddr # ioctls[j].payload.uaddr

\* C13: a call of update_data with an empty buffer issues one LaunchUpdate
\* whose length is 0 and whose address is the address of the buffer, and
\* returns what the ioctl returned.
C13_EmptyBufferSubmitted ==
    /\ Len(calls) = Len(ioctls)
    /\ \A i \in Issued :
          (IsUpdateCall(i) /\ calls[i].args.data.len = <<0, 0, 0, 0>>)
             => /\ ioctls[i].req = "SNP_LAUNCH_UPDATE"
                /\ ioctls[i].cmd.code = 258
                /\ ioctls[i].sess = calls[i].sess
                /\ ioctls[i].payload.len = <<0, 0>>
                /\ ioctls[i].payload.uaddr = calls[i].args.data.ptr
                /\ ioctls[i].payload.uaddr # 0
                /\ calls[i].err = ioctls[i].res

\* C13 witness: update_data was called with an empty buffer twice; one
\* submission succeeded and one failed.
C13_Witness ==
    \E i, j \in Issued :
        /\ IsUpdateCall(i) /\ calls[i].args.data.len = <<0, 0, 0, 0>> /\ calls[i].err = 0
        /\ IsUpdateCall(j) /\ calls[j].args.data.len = <<0, 0, 0, 0>> /\ calls[j].err # 0

\* C14: every call issued exactly one ioctl, the i-th call the i-th ioctl, and
\* returned what that ioctl returned: Ok on success, otherwise the same error.
C14_OneSubmissionSameError ==
    /\ Len(calls) = Len(ioctls)
    /\ \A i \in Issued :
          /\ ioctls[i].sess = calls[i].sess
          /\ ioctls[i].req = ReqOf(calls[i].op)
          /\ calls[i].err = ioctls[i].res
    /\ ret.op \in {"new", "start", "update_data", "finish"}
          => ret.err = ioctls[Len(ioctls)].res

\* C14 witness: two calls failed, with different errors.
C14_Witness ==
    \E i, j \in Issued :
        /\ ioctls[i].res = 1 /\ calls[i].err = 1
        /\ ioctls[j].res = 22 /\ calls[j].err = 22

\* The sub-command the i-th call encodes from its arguments.
EncodedFor(i) ==
    CASE calls[i].op = "new" -> [flags |-> 0]
      [] calls[i].op = "start" -> LaunchStart_new(force_reserved(calls[i].args.start))
      [] calls[i].op = "update_data" ->
            LaunchUpdate_new(calls[i].args.data, calls[i].args.update)
      [] calls[i].op = "finish" -> LaunchFinish_new(calls[i].args.finish)

\* C15: every ioctl goes to the virtualization handle of its session, never to
\* the co-processor handle; its envelope names the co-processor handle of the
\* session in sev_fd, has error 0 and as data the address where the
\* sub-command encoded for that call lives; the Init of new has flags 0.
C15_EnvelopeContents ==
    /\ Len(calls) = Len(ioctls)
    /\ \A i \in Issued :
          LET l == launchers[ioctls[i].sess]
          IN  /\ ioctls[i].fd = l.kvm
              /\ ioctls[i].fd \in KvmHandles \ SevHandles
              /\ ioctls[i].cmd.sev_fd = l.sev
              /\ ioctls[i].cmd.sev_fd \in SevHandles
              /\ ioctls[i].cmd.error = 0
              /\ ioctls[i].cmd.data = ioctls[i].at
              /\ ioctls[i].payload = EncodedFor(i)
              /\ calls[i].op = "new"
                    => /\ ioctls[i].payload.flags = 0
                       /\ l.kvm = calls[i].args.kvm
                       /\ l.sev = calls[i].args.sev

\* C15 witness: a session over handles 5 and 6 went the whole path.
C15_Witness ==
    \E a, b, c, d \in Issued :
        /\ calls[a].op = "new" /\ calls[a].args = [kvm |-> 5, sev |-> 6]
        /\ calls[b].op = "start" /\ calls[b].sess = calls[a].sess
        /\ calls[c].op = "update_data" /\ calls[c].sess = calls[a].sess
        /\ calls[d].op = "finish" /\ calls[d].sess = calls[a].sess

\* C17: two Launchers the caller holds never share a virtualization handle or
\* a co-processor handle; every ioctl of a session goes through the handles
\* its new was given; and between two ioctls of one session no ioctl of
\* another session goes through either of its handles.
C17_OneSessionPerHandles ==
    /\ \A s, t \in Sessions :
          (s # t /\ launchers[s].owned /\ launchers[t].owned)
             => launchers[s].kvm # launchers[t].kvm /\ launchers[s].sev # launchers[t].sev
    /\ \A i, j \in Issued :
          ioctls[i].sess = ioctls[j].sess
             => ioctls[i].fd = ioctls[j].fd /\ ioctls[i].cmd.sev_fd = ioctls[j].cmd.sev_fd
    /\ \A i, j, k \in Issued :
          (i < j /\ j < k /\ ioctls[i].sess = ioctls[k].sess
              /\ ioctls[j].sess # ioctls[i].sess)
             => /\ ioctls[j].fd # ioctls[i].fd
                /\ ioctls[j].cmd.sev_fd # ioctls[i].cmd.sev_fd

\* C17 witness: two sessions over different handles are live at once and took
\* turns submitting.
C17_Witness ==
    \E i, j, k \in Issued :
        /\ i < j /\ j < k
        /\ ioctls[i].sess = ioctls[k].sess
        /\ ioctls[j].sess # ioctls[i].sess
        /\ launchers[ioctls[i].sess].owned /\ launchers[ioctls[j].sess].owned

\* C18: when start has returned, with Ok or with an error, the Start the
\* caller passed has the Reserved flag set, its other flags and its minfw,
\* ma_uaddr, ma_en, imi_en and gosvw are as before, and the policy submitted
\* in the LaunchStart is Policy::to_u64 of the policy it now holds.
C18_StartForcesReserved ==
    ret.op = "start"
       => LET before == calls[Len(calls)].args.start
              after == ret.start
          IN  /\ Bit(after.policy.flags, 1) = 1
              /\ \A n \in {0, 2, 3} :
                    Bit(after.policy.flags, n) = Bit(before.policy.flags, n)
              /\ after.policy.flags \in PolicyFlags
              /\ after.policy.minfw = before.policy.minfw
              /\ after.ma_uaddr = before.ma_uaddr
              /\ after.ma_en = before.ma_en
              /\ after.imi_en = before.imi_en
              /\ after.gosvw = before.gosvw
              /\ ioctls[Len(ioctls)].payload.policy = to_u64(after.policy)
              /\ Bit(ioctls[Len(ioctls)].payload.policy, 17) = 1

\* C18 witness: a start passed a Start without Reserved and succeeded, and a
\* later start passed one without Reserved and failed.
C18_Witness ==
    /\ ret.op = "start" /\ ret.err # 0
    /\ Bit(calls[Len(calls)].args.start.policy.flags, 1) = 0
    /\ Bit(ret.start.policy.flags, 1) = 1
    /\ \E i \in Issued :
          /\ calls[i].op = "start" /\ calls[i].err = 0
          /\ Bit(calls[i].args.start.policy.flags, 1) = 0

\* C19: the length of a LaunchUpdate has 32 bits and is the length of the
\* buffer modulo 2^32: the low two 16-bit limbs of it.  It is the length
\* itself for a buffer shorter than 2^32 bytes; for a longer one the call
\* still submits and returns what the ioctl returned.
C19_LengthTruncated ==
    \A i \in Issued :
        IsUpdateCall(i)
           => LET n == calls[i].args.data.len
                  len == ioctls[i].payload.len
              IN  /\ Len(len) = 2
                  /\ \A b \in 1 .. 2 : len[b] \in 0 .. 65535
                  /\ len[1] = n[1] /\ len[2] = n[2]
                  /\ (n[3] = 0 /\ n[4] = 0) => n = <<len[1], len[2], 0, 0>>
                  /\ ioctls[i].req = "SNP_LAUNCH_UPDATE"
                  /\ calls[i].err = ioctls[i].res

\* C19 witness: a buffer of 2^32 + 4096 bytes was submitted with length 4096
\* and the call returned Ok; so was a buffer of 4096 bytes.
C19_Witness ==
    \E i, j \in Issued :
        /\ IsUpdateCall(i) /\ calls[i].args.data.len = <<4096, 0, 1, 0>>
        /\ ioctls[i].payload.len = <<4096, 0>> /\ calls[i].err = 0
        /\ IsUpdateCall(j) /\ calls[j].args.data.len = <<4096, 0, 0, 0>>
        /\ ioctls[j].payload.len = <<4096, 0>>

(***************************************************************************)
(* Properties of the LaunchUpdate encoder.                                 *)
(***************************************************************************)
\* C16: LaunchUpdate::new copies imi_page to imi_page, the code of the page
\* type to page_type and the masks of VMPL3, VMPL2 and VMPL1 to vmpl3_perms,
\* vmpl2_perms and vmpl1_perms, which lie in that order, VMPL3 first, behind
\* page_type in the structure.
C16_UpdateFieldsProjected ==
    LET u == updateIn.update
    IN  /\ updateOut.imi_page = u.imi_page
        /\ updateOut.page_type = ExpectedPageCode[u.page_type]
        /\ updateOut.vmpl3_perms = u.vmpl3_perms
        /\ updateOut.vmpl2_perms = u.vmpl2_perms
        /\ updateOut.vmpl1_perms = u.vmpl1_perms
        /\ LaunchUpdate_bytes(updateOut)
              = <<u.imi_page, ExpectedPageCode[u.page_type],
                  u.vmpl3_perms, u.vmpl2_perms, u.vmpl1_perms>>

\* C16 witness: a request with three different masks was encoded.
C16_Witness ==
    /\ updateIn.update.vmpl3_perms = 3
    /\ updateIn.update.vmpl2_perms = 5
    /\ updateIn.update.vmpl1_perms = U8Max
    /\ updateIn.update.page_type = "Cpuid"
    /\ updateOut = LaunchUpdate_new(updateIn.data, updateIn.update)
    /\ updateOut.vmpl3_perms = 3

====
